---- MODULE Spec2Model ----
(***************************************************************************)
(* A model of the TDD facade of pytdd (src/tdd/tdd.py): construction of a  *)
(* tensor decision diagram from a dense tensor, materialisation, clone,    *)
(* sum, index and contract, together with the node table and the weighted- *)
(* node algebra (normalize, sum, index) the facade calls.                  *)
(*                                                                         *)
(* Python lists are 0-based; they are kept as TLA+ sequences whose element *)
(* i+1 is the list's element i (operator At).  Axis numbers, depths and    *)
(* branch values keep their 0-based Python values.                         *)
(*                                                                         *)
(* Edge weights are complex floats in the program.  The model has no       *)
(* parallel (batch) axes and keeps a weight as an exact rational <<n, d>>  *)
(* (d > 0, lowest terms), so "equal within tolerance" is equality.         *)
(***************************************************************************)
EXTENDS Integers, Sequences, FiniteSets, TLC

VARIABLES
    unique_table,   \* the node table shared by every diagram
    sum_cache,      \* the memoization cache of the algebra's sum
    tdds,           \* the TDD objects the caller holds, in creation order
    origin,         \* for every TDD of tdds, the call that returned it
    last,           \* the last facade call: its arguments and its outcome
    calls           \* the number of facade calls made so far

vars == <<unique_table, sum_cache, tdds, origin, last, calls>>

-----------------------------------------------------------------------------
(* Bounds of the model.                                                    *)

\* largest number of data axes of a dense input tensor
MaxRank == 4
\* largest cardinality of a data axis
MaxCard == 3
\* largest number of entries of a dense input tensor
MaxSize == 36
\* largest number of facade calls in one run on the large tensors
MaxCalls == 2
\* largest number of facade calls in one run on the small tensors
MaxSmallCalls == 3
\* largest number of axes and of entries of a small tensor
MaxSmallRank == 2
MaxSmallSize == 4

-----------------------------------------------------------------------------
(* Python list access.                                                     *)

At(s, i) == s[i + 1]

Range(n) == [k \in 1..n |-> k - 1]

ListHas(s, x) == \E k \in 1..Len(s) : s[k] = x

\* all permutations of range(n), as lists
Perms(n) == {p \in [1..n -> 0..(n - 1)] : \A i, j \in 1..n : i # j => p[i] # p[j]}

IsPermutation(p) == \A v \in 0..(Len(p) - 1) : \E k \in 1..Len(p) : p[k] = v

-----------------------------------------------------------------------------
(* Weights: exact rationals.                                               *)

RECURSIVE Gcd(_, _)
Gcd(a, b) == IF b = 0 THEN a ELSE Gcd(b, a % b)

Abs(x) == IF x < 0 THEN 0 - x ELSE x

Rat(n, d) ==
    LET g == Gcd(Abs(n), Abs(d))
        s == IF d < 0 THEN 0 - 1 ELSE 1
    IN  <<(s * n) \div g, (s * d) \div g>>

Zero == <<0, 1>>
One == <<1, 1>>
\* the value read where a diagram has no branch for the requested index
Undef == <<0, 0>>

RAdd(a, b) == Rat(a[1] * b[2] + b[1] * a[2], a[2] * b[2])
RMul(a, b) == Rat(a[1] * b[1], a[2] * b[2])
RDiv(a, b) == Rat(a[1] * b[2], a[2] * b[1])

\* the conversion of one dense entry to a weight
np2CUDAcpl(v) == <<v, 1>>

-----------------------------------------------------------------------------
(* Dense tensors: a shape and one entry per index list.                    *)

Idx(shape) ==
    {l \in [1..Len(shape) -> 0..(MaxCard - 1)] : \A k \in 1..Len(shape) : l[k] < shape[k]}

\* torch permute: axis k of the result is axis dims[k] of x
permute(x, dims) ==
    LET n == Len(dims)
        new_shape == [k \in 1..n |-> At(x.shape, dims[k])]
    IN  [shape |-> new_shape,
         data |-> [o \in Idx(new_shape) |->
                     x.data[[d \in 1..n |-> o[CHOOSE k \in 1..n : dims[k] = d - 1]]]]]

-----------------------------------------------------------------------------
(* Nodes and the unique table.  A node reference is the node's position in *)
(* the table; TERMINAL is the reference None of the program.               *)

TERMINAL == 0

order_inverse(index_order) ==
    [v \in 1..Len(index_order) |->
        (CHOOSE i \in 1..Len(index_order) : index_order[i] = v - 1) - 1]

\* the engine's shared state: the unique table and the sum cache
State(table, cache) == [table |-> table, cache |-> cache]

get_unique_node(st, order, out_weights, succ_nodes) ==
    LET key == [order |-> order, out_weights |-> out_weights, successor |-> succ_nodes]
        hits == {i \in 1..Len(st.table) : st.table[i] = key}
    IN  IF hits # {}
        THEN [st |-> st, node |-> CHOOSE i \in hits : TRUE]
        ELSE [st |-> [st EXCEPT !.table = Append(@, key)], node |-> Len(st.table) + 1]

\* the outcome of an algebra call: a status, the engine state after it and the
\* weighted node it returns
WOk(st, node, weights) == [status |-> "ok", st |-> st, node |-> node, weights |-> weights]
WRaise(st, what) == [status |-> what, st |-> st, node |-> TERMINAL, weights |-> Zero]

\* the node is assembled from canonical successors; the scalar factored out
\* is the first non-zero successor weight
normalize(st, order, out_weights, succ_nodes) ==
    LET n == Len(out_weights)
        succ == [k \in 1..n |-> IF out_weights[k] = Zero THEN TERMINAL ELSE succ_nodes[k]]
        nz == {k \in 1..n : out_weights[k] # Zero}
    IN  IF nz = {}
        THEN WOk(st, TERMINAL, Zero)
        ELSE IF \A k \in 1..n : out_weights[k] = out_weights[1] /\ succ[k] = succ[1]
        THEN WOk(st, succ[1], out_weights[1])
        ELSE LET k0 == CHOOSE k \in nz : \A j \in nz : k <= j
                 c == out_weights[k0]
                 factored(r) == WOk(r.st, r.node, c)
             IN  factored(get_unique_node(st, order,
                                          [k \in 1..n |-> RDiv(out_weights[k], c)], succ))

-----------------------------------------------------------------------------
(* TDD facade values.                                                      *)

TDD(weights, data_shape, node, index_order) ==
    [weights |-> weights, data_shape |-> data_shape, node |-> node,
     index_order |-> index_order]

RECURSIVE as_tensor_iterate(_, _, _, _, _, _)
RECURSIVE as_tensor_successors(_, _, _, _, _, _, _, _, _)

\* the loop of lines 108-110: one recursive call per value k of the split axis
as_tensor_successors(st, tensor, data_shape, index_order, depth, fixed, k, ws, ns) ==
    LET split_pos == At(index_order, depth)
    IN  IF k = At(data_shape, split_pos)
        THEN [st |-> st, out_weights |-> ws, succ_nodes |-> ns]
        ELSE LET append(res) ==
                     IF res.status # "ok"
                     THEN [st |-> res.st, out_weights |-> ws, succ_nodes |-> ns]
                     ELSE as_tensor_successors(res.st, tensor, data_shape, index_order,
                                               depth, fixed, k + 1,
                                               Append(ws, res.weights), Append(ns, res.node))
             IN  append(as_tensor_iterate(st, tensor, data_shape, index_order, depth + 1,
                                          [fixed EXCEPT ![split_pos + 1] = k]))

\* as_tensor_iterate returning temp_node, the node it assembled, as a new
\* node of the table instead of the node normalize returns
as_tensor_iterate_temp_node(st, tensor, data_shape, index_order, depth, fixed) ==
    IF depth = Len(data_shape)
    THEN WOk(st, TERMINAL, np2CUDAcpl(tensor.data[fixed]))
    ELSE LET temp_node(s) == [order |-> depth, out_weights |-> s.out_weights,
                              successor |-> s.succ_nodes]
             stack(s) == WOk([s.st EXCEPT !.table = Append(@, temp_node(s))],
                             Len(s.st.table) + 1, One)
         IN  stack(as_tensor_successors(st, tensor, data_shape, index_order, depth,
                                        fixed, 0, <<>>, <<>>))

\* the slice of the tensor reached by the splits so far is the tensor with
\* the split axes fixed to the values in "fixed"
as_tensor_iterate(st, tensor, data_shape, index_order, depth, fixed) ==
    IF depth = Len(data_shape)
    THEN WOk(st, TERMINAL, np2CUDAcpl(tensor.data[fixed]))
    ELSE LET stack(s) == normalize(s.st, depth, s.out_weights, s.succ_nodes)
         IN  stack(as_tensor_successors(st, tensor, data_shape, index_order, depth,
                                        fixed, 0, <<>>, <<>>))

\* a call of the facade returns a status, the engine state after it and,
\* when it succeeded, the new TDD
Ok(st, tdd) == [status |-> "ok", st |-> st, tdd |-> tdd]
Raise(st, what) == [status |-> what, st |-> st, tdd |-> TDD(Zero, <<>>, TERMINAL, <<>>)]

as_tensor(st, tensor, index_order) ==
    LET data_shape == tensor.shape
        result_index_order == IF index_order = <<>> THEN Range(Len(data_shape))
                              ELSE index_order
    IN  IF Len(data_shape) # Len(result_index_order)
        THEN Raise(st, "Exception")
        ELSE LET result(res) ==
                     Ok(res.st, TDD(res.weights, data_shape, res.node, result_index_order))
             IN  result(as_tensor_iterate(st, tensor, data_shape, result_index_order, 0,
                                          [k \in 1..Len(data_shape) |-> 0]))

-----------------------------------------------------------------------------
(* Reading a diagram.                                                      *)

\* the entry of the weighted node at the storage index list s: the product
\* of the weights on the path that takes branch s[depth] at every node
RECURSIVE NodeValue(_, _, _, _)
NodeValue(table, node, weights, s) ==
    IF node = TERMINAL THEN weights
    ELSE LET nd == table[node]
         IN  IF nd.order >= Len(s) THEN Undef
             ELSE IF At(s, nd.order) >= Len(nd.out_weights) THEN Undef
             ELSE NodeValue(table, At(nd.successor, At(s, nd.order)),
                            RMul(weights, At(nd.out_weights, At(s, nd.order))), s)

\* the dense array of a weighted node, axis d being depth d; data_shape
\* gives the size of the axes, which is what broadcasts a skipped axis
to_CUDAcpl_Tensor(table, node, weights, data_shape) ==
    [shape |-> data_shape,
     data |-> [s \in Idx(data_shape) |-> NodeValue(table, node, weights, s)]]

CUDAcpl(table, tdd) ==
    LET inv == order_inverse(tdd.index_order)
        trival_ordered_data_shape ==
            [i \in 1..Len(inv) |-> At(tdd.data_shape, inv[i])]
        node_data == to_CUDAcpl_Tensor(table, tdd.node, tdd.weights,
                                       trival_ordered_data_shape)
    IN  permute(node_data, tdd.index_order)

\* the tensor a TDD stands for: as_tensor puts logical axis index_order[d]
\* at depth d, so logical index l is read at storage index s[d] = l[index_order[d]]
Denote(table, tdd) ==
    [shape |-> tdd.data_shape,
     data |-> [l \in Idx(tdd.data_shape) |->
                 IF Len(tdd.index_order) # Len(tdd.data_shape)
                    \/ ~IsPermutation(tdd.index_order)
                 THEN Undef
                 ELSE NodeValue(table, tdd.node, tdd.weights,
                                [d \in 1..Len(tdd.index_order) |->
                                    At(l, tdd.index_order[d])])]]

\* a dense tensor of entries as the array of weights it converts to
AsWeights(tensor) ==
    [shape |-> tensor.shape, data |-> [l \in Idx(tensor.shape) |-> np2CUDAcpl(tensor.data[l])]]

-----------------------------------------------------------------------------
(* The weighted-node algebra: index and sum.                               *)

\* the pairs (position, value) in ascending position, ties in list order
SortPairs(pairs) ==
    LET n == Len(pairs)
        rank(k) == Cardinality({j \in 1..n : pairs[j][1] < pairs[k][1]
                                             \/ (pairs[j][1] = pairs[k][1] /\ j < k)})
    IN  [r \in 1..n |-> pairs[CHOOSE k \in 1..n : rank(k) = r - 1]]

RECURSIVE index_iterate(_, _, _, _, _)
RECURSIVE index_branches(_, _, _, _, _, _, _)

\* the successors of an unfixed node, each indexed with the remaining pairs
index_branches(st, nd, pairs, removed, k, ws, ns) ==
    IF k = Len(nd.out_weights)
    THEN [status |-> "ok", st |-> st, out_weights |-> ws, succ_nodes |-> ns]
    ELSE LET append(r) ==
                 IF r.status # "ok"
                 THEN [status |-> r.status, st |-> r.st, out_weights |-> ws,
                       succ_nodes |-> ns]
                 ELSE index_branches(r.st, nd, pairs, removed, k + 1,
                                     Append(ws, r.weights), Append(ns, r.node))
         IN  append(index_iterate(st, At(nd.successor, k), At(nd.out_weights, k),
                                  pairs, removed))

\* pairs are sorted; removed counts the pairs already passed, which is how
\* far the depth of every node below moves up
index_iterate(st, node, weights, pairs, removed) ==
    IF node = TERMINAL THEN WOk(st, TERMINAL, weights)
    ELSE IF pairs = <<>> /\ removed = 0 THEN WOk(st, node, weights)
    ELSE LET nd == st.table[node]
         IN  IF pairs # <<>> /\ pairs[1][1] < nd.order
             THEN index_iterate(st, node, weights, Tail(pairs), removed + 1)
             ELSE IF pairs # <<>> /\ pairs[1][1] = nd.order
             THEN IF pairs[1][2] >= Len(nd.out_weights)
                  THEN WRaise(st, "InvalidBranchValue")
                  ELSE index_iterate(st, At(nd.successor, pairs[1][2]),
                                     RMul(weights, At(nd.out_weights, pairs[1][2])),
                                     Tail(pairs), removed + 1)
             ELSE LET scaled(r) == WOk(r.st, r.node, RMul(weights, r.weights))
                      stack(b) ==
                          IF b.status # "ok" THEN WRaise(b.st, b.status)
                          ELSE scaled(normalize(b.st, nd.order - removed,
                                                b.out_weights, b.succ_nodes))
                  IN  stack(index_branches(st, nd, pairs, removed, 0, <<>>, <<>>))

wn_index(st, node, weights, inner_indices) ==
    index_iterate(st, node, weights, SortPairs(inner_indices), 0)

NodeOrder(table, node) == IF node = TERMINAL THEN MaxRank + 10 ELSE table[node].order

RECURSIVE wn_sum(_, _, _, _, _)
RECURSIVE sum_branches(_, _, _, _, _, _, _, _, _, _)

\* branch k of an operand at depth d: its k-th successor edge, or the
\* operand itself when it skipped this axis
BranchNode(table, node, d, k) ==
    IF NodeOrder(table, node) = d THEN At(table[node].successor, k) ELSE node
BranchWeight(table, node, weights, d, k) ==
    IF NodeOrder(table, node) = d THEN RMul(weights, At(table[node].out_weights, k))
    ELSE weights

sum_branches(st, n1, w1, n2, w2, d, arity, k, ws, ns) ==
    IF k = arity
    THEN [status |-> "ok", st |-> st, out_weights |-> ws, succ_nodes |-> ns]
    ELSE LET append(r) ==
                 IF r.status # "ok"
                 THEN [status |-> r.status, st |-> r.st, out_weights |-> ws,
                       succ_nodes |-> ns]
                 ELSE sum_branches(r.st, n1, w1, n2, w2, d, arity, k + 1,
                                   Append(ws, r.weights), Append(ns, r.node))
         IN  append(wn_sum(st, BranchNode(st.table, n1, d, k),
                           BranchWeight(st.table, n1, w1, d, k),
                           BranchNode(st.table, n2, d, k),
                           BranchWeight(st.table, n2, w2, d, k)))

\* the sum of two weighted nodes aligned at the smaller depth, not memoized
sum_aligned(st, n1, w1, n2, w2) ==
    LET o1 == NodeOrder(st.table, n1)
        o2 == NodeOrder(st.table, n2)
        d == IF o1 <= o2 THEN o1 ELSE o2
        a1 == IF o1 = d THEN Len(st.table[n1].out_weights) ELSE 0
        a2 == IF o2 = d THEN Len(st.table[n2].out_weights) ELSE 0
    IN  IF o1 = d /\ o2 = d /\ a1 # a2
        THEN WRaise(st, "Exception")
        ELSE LET stack(b) ==
                     IF b.status # "ok" THEN WRaise(b.st, b.status)
                     ELSE normalize(b.st, d, b.out_weights, b.succ_nodes)
             IN  stack(sum_branches(st, n1, w1, n2, w2, d,
                                    IF o1 = d THEN a1 ELSE a2, 0, <<>>, <<>>))

\* memoized by the pair of operand nodes and the ratio of their weights
wn_sum(st, n1, w1, n2, w2) ==
    IF n1 = TERMINAL /\ n2 = TERMINAL THEN WOk(st, TERMINAL, RAdd(w1, w2))
    ELSE IF w1 = Zero THEN sum_aligned(st, n1, w1, n2, w2)
    ELSE LET key == <<n1, n2, RDiv(w2, w1)>>
         IN  IF key \in DOMAIN st.cache
             THEN WOk(st, st.cache[key][1], RMul(w1, st.cache[key][2]))
             ELSE LET cached(r) ==
                          IF r.status # "ok" THEN r
                          ELSE WOk([r.st EXCEPT
                                       !.cache = (key :> <<r.node, r.weights>>) @@ @],
                                   r.node, RMul(w1, r.weights))
                  IN  cached(sum_aligned(st, n1, One, n2, key[3]))

-----------------------------------------------------------------------------
(* The facade operations.                                                  *)

clone(st, tdd) == Ok(st, TDD(tdd.weights, tdd.data_shape, tdd.node, tdd.index_order))

\* sorted(range(len(keys)), key = lambda k: keys[k])
ArgSort(keys) ==
    LET n == Len(keys)
        rank(k) == Cardinality({j \in 1..n : keys[j] < keys[k]
                                             \/ (keys[j] = keys[k] /\ j < k)})
    IN  [r \in 1..n |-> (CHOOSE k \in 1..n : rank(k) = r - 1) - 1]

\* the positions i of range(len(data_shape)) that are not in reduced_indices
RECURSIVE KeptPositions(_, _, _)
KeptPositions(n, reduced_indices, i) ==
    IF i = n THEN <<>>
    ELSE (IF ListHas(reduced_indices, i) THEN <<>> ELSE <<i>>)
         \o KeptPositions(n, reduced_indices, i + 1)

\* __index_reduce_proc returning indexed_index_order as it is, the old
\* depth-to-axis entries of the axes left, without renumbering them
index_reduce_proc_unsorted(tdd, reduced_indices) ==
    LET kept == KeptPositions(Len(tdd.data_shape), reduced_indices, 0)
    IN  [new_data_shape |-> [k \in 1..Len(kept) |-> At(tdd.data_shape, kept[k])],
         new_index_order |-> [k \in 1..Len(kept) |-> At(tdd.index_order, kept[k])]]

index_reduce_proc(tdd, reduced_indices) ==
    LET kept == KeptPositions(Len(tdd.data_shape), reduced_indices, 0)
        new_data_shape == [k \in 1..Len(kept) |-> At(tdd.data_shape, kept[k])]
        indexed_index_order == [k \in 1..Len(kept) |-> At(tdd.index_order, kept[k])]
    IN  [new_data_shape |-> new_data_shape,
         new_index_order |-> ArgSort(indexed_index_order)]

InRange(tdd, pos) == pos >= 0 /\ pos < Len(tdd.index_order)

index(st, tdd, data_indices) ==
    IF \E k \in 1..Len(data_indices) : ~InRange(tdd, data_indices[k][1])
    THEN Raise(st, "IndexError")
    ELSE LET reversed_order == order_inverse(tdd.index_order)
             inner_indices == [k \in 1..Len(data_indices) |->
                                 <<At(reversed_order, data_indices[k][1]),
                                   data_indices[k][2]>>]
             indexed_indices == [k \in 1..Len(inner_indices) |-> inner_indices[k][1]]
             result(r, p) ==
                 IF r.status # "ok" THEN Raise(r.st, r.status)
                 ELSE Ok(r.st, TDD(r.weights, p.new_data_shape, r.node, p.new_index_order))
         IN  result(wn_index(st, tdd.node, tdd.weights, inner_indices),
                    index_reduce_proc(tdd, indexed_indices))

\* sum passing a's weights with b's node
sum_operand_weight(st, a, b) ==
    LET result(r) == IF r.status # "ok" THEN Raise(r.st, r.status)
                     ELSE Ok(r.st, TDD(r.weights, a.data_shape, r.node, a.index_order))
    IN  result(wn_sum(st, a.node, a.weights, b.node, a.weights))

sum(st, a, b) ==
    LET result(r) == IF r.status # "ok" THEN Raise(r.st, r.status)
                     ELSE Ok(r.st, TDD(r.weights, a.data_shape, r.node, a.index_order))
    IN  result(wn_sum(st, a.node, a.weights, b.node, b.weights))

\* lines 296-306: one pending position moved past the eliminated pair
Shift(i, item) ==
    LET i1 == IF i > item[1] THEN i - 1 ELSE i
    IN  IF i1 > item[2] THEN i1 - 1 ELSE i1

Renumber(inner_indices, item) ==
    [k \in 1..Len(inner_indices) |->
        <<Shift(inner_indices[k][1], item), Shift(inner_indices[k][2], item)>>]

\* lines 288-291: the values i = 1 .. index_width-1 indexed and summed
RECURSIVE contract_values(_, _, _, _, _, _, _, _)
contract_values(st, res_node, res_weights, item, i, index_width, s_node, s_weights) ==
    IF i >= index_width THEN WOk(st, s_node, s_weights)
    ELSE LET summed(s) ==
                 IF s.status # "ok" THEN s
                 ELSE contract_values(s.st, res_node, res_weights, item, i + 1,
                                      index_width, s.node, s.weights)
             indexed(n) ==
                 IF n.status # "ok" THEN n
                 ELSE summed(wn_sum(n.st, s_node, s_weights, n.node, n.weights))
         IN  indexed(wn_index(st, res_node, res_weights,
                              <<<<item[1], i>>, <<item[2], i>>>>))

\* lines 281-306: the while loop; steps records, for every elimination, the
\* pair eliminated, the width summed over and the pending pairs left
RECURSIVE contract_loop(_, _, _, _, _, _)
contract_loop(st, tdd, res_node, res_weights, inner_indices, steps) ==
    IF inner_indices = <<>>
    THEN [status |-> "ok", st |-> st, node |-> res_node, weights |-> res_weights,
          steps |-> steps]
    ELSE LET item == inner_indices[1]
             bad == [status |-> "IndexError", st |-> st, node |-> TERMINAL,
                     weights |-> Zero, steps |-> steps]
         IN  IF ~InRange(tdd, item[1]) THEN bad
             ELSE LET index_width == At(tdd.data_shape, At(tdd.index_order, item[1]))
                      pending == Renumber(Tail(inner_indices), item)
                      step == [item |-> item, index_width |-> index_width,
                               pending |-> pending]
                      rest(all) ==
                          IF all.status # "ok"
                          THEN [status |-> all.status, st |-> all.st, node |-> TERMINAL,
                                weights |-> Zero, steps |-> steps]
                          ELSE contract_loop(all.st, tdd, all.node, all.weights, pending,
                                             Append(steps, step))
                      values(first) ==
                          IF first.status # "ok" THEN rest(first)
                          ELSE rest(contract_values(first.st, res_node, res_weights, item,
                                                    1, index_width, first.node,
                                                    first.weights))
                  IN  values(wn_index(st, res_node, res_weights,
                                      <<<<item[1], 0>>, <<item[2], 0>>>>))

\* reduced_indices: the flattened pairs of inner_indices_copy
RECURSIVE Flatten(_)
Flatten(pairs) ==
    IF pairs = <<>> THEN <<>> ELSE <<pairs[1][1], pairs[1][2]>> \o Flatten(Tail(pairs))

contract(st, tdd, data_indices) ==
    LET n == Len(data_indices[1])
    IN  IF \E k \in 1..n : ~InRange(tdd, data_indices[1][k])
                           \/ ~InRange(tdd, data_indices[2][k])
        THEN [status |-> "IndexError", st |-> st, steps |-> <<>>,
              tdd |-> TDD(Zero, <<>>, TERMINAL, <<>>)]
        ELSE LET reversed_order == order_inverse(tdd.index_order)
                 inner_indices == [k \in 1..n |->
                                     <<At(reversed_order, data_indices[1][k]),
                                       At(reversed_order, data_indices[2][k])>>]
                 result(r, p) ==
                     IF r.status # "ok"
                     THEN [status |-> r.status, st |-> r.st, steps |-> r.steps,
                           tdd |-> TDD(Zero, <<>>, TERMINAL, <<>>)]
                     ELSE [status |-> "ok", st |-> r.st, steps |-> r.steps,
                           tdd |-> TDD(r.weights, p.new_data_shape, r.node,
                                       p.new_index_order)]
             IN  result(contract_loop(st, tdd, tdd.node, tdd.weights, inner_indices, <<>>),
                        index_reduce_proc(tdd, Flatten(inner_indices)))

-----------------------------------------------------------------------------
(* The dense tensors given to as_tensor.                                   *)

RECURSIVE Product(_)
Product(shape) == IF shape = <<>> THEN 1 ELSE shape[1] * Product(Tail(shape))

Shapes ==
    UNION {{sh \in [1..n -> 2..MaxCard] : Product(sh) <= MaxSize} : n \in 0..MaxRank}

\* the row-major position of an index list
RECURSIVE Position(_, _)
Position(shape, l) ==
    IF shape = <<>> THEN 0
    ELSE l[1] * Product(Tail(shape)) + Position(Tail(shape), Tail(l))

Kinds == {"ones", "count", "diag", "last"}
SmallKinds == {"ones", "count", "diag", "neg"}

Entry(kind, shape, l) ==
    CASE kind = "ones" -> 1
      [] kind = "count" -> 1 + Position(shape, l)
      [] kind = "diag" -> IF \A j, k \in 1..Len(l) : l[j] = l[k] THEN 1 ELSE 0
      [] kind = "last" -> IF l = <<>> THEN 2 ELSE l[Len(l)]
      [] kind = "neg" -> 0 - (1 + Position(shape, l))

Tensor(shape, kind) ==
    [shape |-> shape, data |-> [l \in Idx(shape) |-> Entry(kind, shape, l)]]

Tensors == {Tensor(sh, kind) : sh \in Shapes, kind \in Kinds}

SmallShapes == {sh \in Shapes : Len(sh) <= MaxSmallRank /\ Product(sh) <= MaxSmallSize}

SmallTensors == {Tensor(sh, kind) : sh \in SmallShapes, kind \in SmallKinds}

\* the orders given with a tensor of rank n: [] (the default), every
\* permutation of range(n), and one list that is one axis too long
Orders(n) == {<<>>} \cup Perms(n) \cup {Range(n + 1)}

-----------------------------------------------------------------------------
(* The state machine: one action per facade call.                          *)

Engine == State(unique_table, sum_cache)

NoTDD == TDD(Zero, <<>>, TERMINAL, <<>>)

Call(op, a, b, args, tensor) ==
    [op |-> op, a |-> a, b |-> b, args |-> args, tensor |-> tensor]

\* the effect of a call that returned r: the engine state it left, the new
\* TDD when it succeeded, and the record of the call
Return(call, r, steps) ==
    /\ unique_table' = r.st.table
    /\ sum_cache' = r.st.cache
    /\ tdds' = IF r.status = "ok" THEN Append(tdds, r.tdd) ELSE tdds
    /\ origin' = IF r.status = "ok" THEN Append(origin, call) ELSE origin
    /\ last' = [call |-> call, status |-> r.status, pre |-> Engine,
                out |-> r.tdd, dense |-> <<>>, steps |-> steps]
    /\ calls' = calls + 1

NoCall == Call("none", 0, 0, <<>>, <<>>)

Init ==
    /\ unique_table = <<>>
    /\ sum_cache = <<>>
    /\ tdds = <<>>
    /\ origin = <<>>
    /\ last = [call |-> NoCall, status |-> "ok", pre |-> State(<<>>, <<>>),
               out |-> NoTDD, dense |-> <<>>, steps |-> <<>>]
    /\ calls = 0

DoAsTensor(tensor, index_order) ==
    Return(Call("as_tensor", 0, 0, index_order, tensor),
              as_tensor(Engine, tensor, index_order), <<>>)

DoClone(i) ==
    Return(Call("clone", i, 0, <<>>, <<>>), clone(Engine, tdds[i]), <<>>)

DoSum(i, j) ==
    Return(Call("sum", i, j, <<>>, <<>>), sum(Engine, tdds[i], tdds[j]), <<>>)

DoIndex(i, data_indices) ==
    Return(Call("index", i, 0, data_indices, <<>>),
              index(Engine, tdds[i], data_indices), <<>>)

DoContract(i, data_indices) ==
    LET returned(r) == Return(Call("contract", i, 0, data_indices, <<>>), r, r.steps)
    IN  returned(contract(Engine, tdds[i], data_indices))

\* numpy() reads the diagram and changes nothing
DoNumpy(i) ==
    /\ last' = [call |-> Call("numpy", i, 0, <<>>, <<>>), status |-> "ok",
                pre |-> Engine, out |-> tdds[i],
                dense |-> CUDAcpl(unique_table, tdds[i]), steps |-> <<>>]
    /\ calls' = calls + 1
    /\ UNCHANGED <<unique_table, sum_cache, tdds, origin>>

\* the index lists given to index: one pair, or two pairs at distinct
\* positions; the position may be one past the last axis and the value one
\* past the largest branch of a small axis
IndexArgs(rank) ==
    {<<<<p, u>>>> : p \in 0..rank, u \in 0..(MaxCard - 1)}
    \cup {<<<<x[1], x[2]>>, <<x[3], x[4]>>>> :
             x \in {y \in (0..(rank - 1)) \X (0..(MaxCard - 1))
                            \X (0..(rank - 1)) \X (0..(MaxCard - 1)) : y[1] # y[3]}}

\* the axis lists given to contract: no pair, one pair or two pairs, all
\* axes distinct
ContractArgs(rank) ==
    {<<<<>>, <<>>>>}
    \cup {<<<<x[1]>>, <<x[2]>>>> :
             x \in {y \in (0..(rank - 1)) \X (0..(rank - 1)) : y[1] # y[2]}}
    \cup {<<<<p[1], p[3]>>, <<p[2], p[4]>>>> :
             p \in {q \in [1..4 -> 0..(rank - 1)] :
                       \A x, y \in 1..4 : x # y => q[x] # q[y]}}

AsTensor ==
    /\ calls = 0
    /\ \E tensor \in Tensors : \E index_order \in Orders(Len(tensor.shape)) :
          DoAsTensor(tensor, index_order)

Clone == calls < MaxCalls /\ \E i \in 1..Len(tdds) : DoClone(i)

Sum == calls < MaxCalls /\ \E i, j \in 1..Len(tdds) : DoSum(i, j)

Index ==
    /\ calls < MaxCalls
    /\ \E i \in 1..Len(tdds) :
          \E data_indices \in IndexArgs(Len(tdds[i].data_shape)) :
              DoIndex(i, data_indices)

Contract ==
    /\ calls < MaxCalls
    /\ \E i \in 1..Len(tdds) :
          \E data_indices \in ContractArgs(Len(tdds[i].data_shape)) :
              DoContract(i, data_indices)

Numpy == calls < MaxCalls /\ \E i \in 1..Len(tdds) : DoNumpy(i)

Next == AsTensor \/ Clone \/ Sum \/ Index \/ Contract \/ Numpy

Spec == Init /\ [][Next]_vars

-----------------------------------------------------------------------------
(* The same calls on small tensors, in longer runs: several tensors are    *)
(* built into the one node table and the results are operated on again.    *)

SmallAsTensor ==
    /\ calls < MaxSmallCalls
    /\ \E tensor \in SmallTensors : \E index_order \in Perms(Len(tensor.shape)) :
          DoAsTensor(tensor, index_order)

SmallClone == calls < MaxSmallCalls /\ \E i \in 1..Len(tdds) : DoClone(i)

SmallSum == calls < MaxSmallCalls /\ \E i, j \in 1..Len(tdds) : DoSum(i, j)

SmallIndex ==
    /\ calls < MaxSmallCalls
    /\ \E i \in 1..Len(tdds) :
          \E data_indices \in IndexArgs(Len(tdds[i].data_shape)) :
              DoIndex(i, data_indices)

SmallContract ==
    /\ calls < MaxSmallCalls
    /\ \E i \in 1..Len(tdds) :
          \E data_indices \in ContractArgs(Len(tdds[i].data_shape)) :
              DoContract(i, data_indices)

SmallNumpy == calls < MaxSmallCalls /\ \E i \in 1..Len(tdds) : DoNumpy(i)

SmallNext ==
    SmallAsTensor \/ SmallClone \/ SmallSum \/ SmallIndex \/ SmallContract \/ SmallNumpy

SpecSmall == Init /\ [][SmallNext]_vars

-----------------------------------------------------------------------------
(* What the calls are meant to compute, on dense tensors.                  *)

RECURSIVE RSum(_, _, _)
\* the sum of f[0] .. f[n-1], from value v on
RSum(f, n, v) == IF v >= n THEN Zero ELSE RAdd(f[v], RSum(f, n, v + 1))

\* the index list of x that has v at the axes in fixed (axis -> value) and
\* the entries of l, in order, at the other axes
Fill(n, fixed, l) ==
    LET kept == KeptPositions(n, [k \in 1..Cardinality(DOMAIN fixed) |->
                                     CHOOSE a \in DOMAIN fixed :
                                        Cardinality({b \in DOMAIN fixed : b < a}) = k - 1], 0)
    IN  [k \in 1..n |-> IF (k - 1) \in DOMAIN fixed THEN fixed[k - 1]
                        ELSE l[CHOOSE m \in 1..Len(kept) : kept[m] = k - 1]]

\* the shape of x without the axes in gone
Without(shape, gone) ==
    LET kept == KeptPositions(Len(shape), gone, 0)
    IN  [k \in 1..Len(kept) |-> At(shape, kept[k])]

\* x with logical axes i and j both fixed to v, summed over v
BruteContract(x, i, j) ==
    LET n == Len(x.shape)
        new_shape == Without(x.shape, <<i, j>>)
    IN  [shape |-> new_shape,
         data |-> [l \in Idx(new_shape) |->
                     RSum([v \in 0..(At(x.shape, i) - 1) |->
                              x.data[Fill(n, (i :> v) @@ (j :> v), l)]],
                          At(x.shape, i), 0)]]

-----------------------------------------------------------------------------
(* The claims.                                                             *)

\* the TDD a call was made on, and the dense tensor an as_tensor call was given
Self == tdds[last.call.a]
Built(i) == origin[i].op = "as_tensor"

\* C1: numpy() of the TDD that as_tensor built from a dense tensor T with a
\* valid order returns T, entry by entry, with the axes in T's order.
C1_RoundTrip ==
    (last.call.op = "numpy" /\ Built(last.call.a))
        => last.dense = AsWeights(origin[last.call.a].tensor)

\* C2: contract(([i],[j])) on distinct axes of equal cardinality returns a
\* TDD that stands for the sum over v of T with axes i and j fixed to v.
C2_ContractIsBruteForce ==
    (/\ last.call.op = "contract"
     /\ Len(last.call.args[1]) = 1
     /\ At(Self.data_shape, last.call.args[1][1])
            = At(Self.data_shape, last.call.args[2][1]))
        => /\ last.status = "ok"
           /\ Denote(unique_table, last.out)
                = BruteContract(Denote(unique_table, Self),
                                last.call.args[1][1], last.call.args[2][1])

C6_SumShapeMismatch ==
    (last.call.op = "sum" /\ Self.data_shape # tdds[last.call.b].data_shape)
        => last.status # "ok"

\* C7: a call that fails leaves the unique table and the caches as they
\* were before the call.
C7_FailureAtomic ==
    last.status # "ok"
        => unique_table = last.pre.table /\ sum_cache = last.pre.cache

\* C8: index_order of every TDD is a permutation of range(len(data_shape)).
C8_OrderIsPermutation ==
    \A i \in 1..Len(tdds) :
        /\ Len(tdds[i].index_order) = Len(tdds[i].data_shape)
        /\ IsPermutation(tdds[i].index_order)

\* C8's case: a TDD that index or contract returned for a diagram stored in
\* another order than the logical one, with axes left
C8_Witness ==
    /\ last.call.op \in {"index", "contract"}
    /\ last.status = "ok"
    /\ Self.index_order # Range(Len(Self.index_order))
    /\ Len(last.out.index_order) >= 3
    /\ last.out.index_order # Range(Len(last.out.index_order))

\* the position x of the diagram after positions a and b are removed
Moved(x, item) ==
    x - (IF item[1] < x THEN 1 ELSE 0) - (IF item[2] < x THEN 1 ELSE 0)

\* C9: after contract eliminates a pair, every position of every pending
\* pair is shifted down by the number of removed positions smaller than it.
C9_Renumbering ==
    (last.call.op = "contract" /\ Len(last.steps) >= 1)
        => LET item == last.steps[1].item
               before == [k \in 1..Len(last.call.args[1]) |->
                            <<At(order_inverse(Self.index_order), last.call.args[1][k]),
                              At(order_inverse(Self.index_order), last.call.args[2][k])>>]
           IN  last.steps[1].pending
                 = [k \in 1..(Len(before) - 1) |->
                      <<Moved(before[k + 1][1], item), Moved(before[k + 1][2], item)>>]

\* the outcome of sum(x, y) when x and y are themselves outcomes: a failed
\* operand makes the sum fail
SumOf(x, y) ==
    IF x.status # "ok" THEN x
    ELSE IF y.status # "ok" THEN [y EXCEPT !.st = x.st]
    ELSE sum(y.st, x.tdd, y.tdd)

\* the same result: both calls fail, or both return the same TDD (node
\* reference, weight, data_shape and index_order)
SameResult(x, y) == x.status = y.status /\ (x.status = "ok" => x.tdd = y.tdd)

\* sum commutes and associates on a, b, c, the calls made one after the
\* other on the engine
SumLaws(a, b, c) ==
    LET ab == sum(Engine, a, b)
        ba == sum(ab.st, b, a)
        ab_c == SumOf(ab, Ok(ba.st, c))
        bc == sum(ab_c.st, b, c)
        a_bc == SumOf(Ok(bc.st, a), bc)
    IN  /\ SameResult(ab, ba)
        /\ SameResult(ab_c, a_bc)
        /\ ab.status = "ok"
              => Denote(a_bc.st.table, ab.tdd) = Denote(a_bc.st.table, ba.tdd)
        /\ ab_c.status = "ok"
              => Denote(a_bc.st.table, ab_c.tdd) = Denote(a_bc.st.table, a_bc.tdd)

\* C4 as stated: sum is commutative and associative, as TDD values, for
\* all operands of equal data_shape.
C4_SumLawsEqualShape ==
    \A i, j, k \in 1..Len(tdds) :
        (tdds[i].data_shape = tdds[j].data_shape
         /\ tdds[j].data_shape = tdds[k].data_shape)
            => SumLaws(tdds[i], tdds[j], tdds[k])

\* C4 amended: sum is commutative and associative, as TDD values, for all
\* operands of equal data_shape and equal index_order.
C4_SumLawsEqualShapeAndOrder ==
    \A i, j, k \in 1..Len(tdds) :
        (/\ tdds[i].data_shape = tdds[j].data_shape
         /\ tdds[j].data_shape = tdds[k].data_shape
         /\ tdds[i].index_order = tdds[j].index_order
         /\ tdds[j].index_order = tdds[k].index_order)
            => SumLaws(tdds[i], tdds[j], tdds[k])

\* C4's case: three TDDs of one shape and order on three different nodes,
\* the last of them returned by sum
C4_Witness ==
    /\ Len(tdds) = 3
    /\ last.call.op = "sum" /\ last.status = "ok"
    /\ tdds[1].data_shape = tdds[2].data_shape /\ tdds[2].data_shape = tdds[3].data_shape
    /\ tdds[1].index_order = tdds[2].index_order
    /\ tdds[2].index_order = tdds[3].index_order
    /\ Len(tdds[1].data_shape) = 2
    /\ Cardinality({tdds[1].node, tdds[2].node, tdds[3].node, TERMINAL}) = 4

\* C5: indexing at (p, u) and then at (q-1, v), p < q, returns the same TDD
\* as indexing once with [(p, u), (q, v)].
C5_IndexComposition ==
    (/\ last.call.op = "index"
     /\ Len(last.call.args) = 1
     /\ last.status = "ok"
     /\ last.call.args[1][2] < At(Self.data_shape, last.call.args[1][1]))
        => \A q \in (last.call.args[1][1] + 1)..(Len(Self.data_shape) - 1) :
              \A v \in 0..(At(Self.data_shape, q) - 1) :
                  LET two == index(Engine, last.out, <<<<q - 1, v>>>>)
                      once == index(two.st, Self, <<last.call.args[1], <<q, v>>>>)
                  IN  /\ SameResult(two, once)
                      /\ Denote(once.st.table, two.tdd) = Denote(once.st.table, once.tdd)

\* C10: contract with the same pairs listed in another order returns a TDD
\* that stands for the same tensor.
C10_EliminationOrder ==
    (last.call.op = "contract" /\ Len(last.call.args[1]) = 2)
        => LET swapped == <<<<last.call.args[1][2], last.call.args[1][1]>>,
                            <<last.call.args[2][2], last.call.args[2][1]>>>>
               other == contract(Engine, Self, swapped)
           IN  /\ other.status = last.status
               /\ last.status = "ok"
                    => Denote(other.st.table, other.tdd)
                         = Denote(other.st.table, last.out)

\* the logical axes that the last index or contract call removes
Removed ==
    IF last.call.op = "index"
    THEN [k \in 1..Len(last.call.args) |-> last.call.args[k][1]]
    ELSE last.call.args[1] \o last.call.args[2]

\* the order of the diagram of tdd once the logical axes in gone are taken
\* out: the depths left, in order, each with its logical axis renumbered
\* among the logical axes left
RemainingOrder(tdd, gone) ==
    LET inv == order_inverse(tdd.index_order)
        depths == KeptPositions(Len(tdd.index_order),
                                [k \in 1..Len(gone) |-> At(inv, gone[k])], 0)
    IN  [k \in 1..Len(depths) |->
            Cardinality({a \in 0..(Len(tdd.index_order) - 1) :
                            ~ListHas(gone, a) /\ a < At(tdd.index_order, depths[k])})]

\* C11: index and contract return a TDD whose data_shape lists the sizes of
\* the logical axes left, in logical order, and whose index_order gives, for
\* every depth left, the logical axis left that is stored there.
C11_ReducedShape ==
    (last.call.op \in {"index", "contract"} /\ last.status = "ok")
        => /\ last.out.data_shape = Without(Self.data_shape, Removed)
           /\ last.out.index_order = RemainingOrder(Self, Removed)

\* the sizes of the axes of a diagram by depth
DepthShape(tdd) ==
    [d \in 1..Len(tdd.index_order) |-> At(tdd.data_shape, tdd.index_order[d])]

\* the sizes by depth of the diagram that elimination step k of contract
\* works on: the positions of the pairs eliminated before it are gone
RECURSIVE CurrentShape(_, _, _)
CurrentShape(shape, steps, k) ==
    IF k = 1 THEN shape
    ELSE Without(CurrentShape(shape, steps, k - 1), steps[k - 1].item)

\* C12: at every elimination step of contract the values indexed and summed
\* are 0 .. n-1, n being the size, in the diagram the step works on, of the
\* axis at the position the step eliminates.
C12_SummationRange ==
    last.call.op = "contract"
        => \A k \in 1..Len(last.steps) :
              LET cur == CurrentShape(DepthShape(Self), last.steps, k)
                  pos == last.steps[k].item[1]
              IN  pos < Len(cur) => last.steps[k].index_width = At(cur, pos)

====
